---- MODULE Spec2Model ----
(***************************************************************************)
(* A model of the pcluster command line front end:                         *)
(*   - cli.py: config_logger, _failure_level_type, _get_parser and main    *)
(*     (logging set-up, argument parsing, region publication, dispatch,    *)
(*     the three except clauses and the exit code);                        *)
(*   - cli/commands/image_logs.py: ExportImageLogsCommand.execute and      *)
(*     _export_image_logs (compute path, validate path, delegate export).  *)
(* Strings that the code inspects character by character are sequences of  *)
(* one-character strings; every other string is a TLA+ string.             *)
(***************************************************************************)
EXTENDS Integers, Sequences, FiniteSets, TLC

VARIABLES
    \* ---- main() of cli.py
    pc,            \* position of main(): start, configured, try, dispatch, handler, except, done
    argv,          \* the command line, as a record of what was typed
    environ,       \* os.environ["AWS_DEFAULT_REGION"] (None when unset)
    args,          \* the Namespace returned by parse_known_args (NoArgs before parsing)
    extra_args,    \* the unrecognized tokens returned by parse_known_args
    logfile,       \* records written by the rotating file handler (DEBUG and above)
    stdout,        \* what print(), print_usage() and the stream handler wrote
    stderr,        \* what argparse's error() and the interpreter's traceback wrote
    handlerCalls,  \* every call of args.func: the function, its arguments, environ at that moment
    raised,        \* the exception in flight inside main (NoException when there is none)
    exitCode,      \* the process exit status, read when pc = "done" (0 unless sys.exit says otherwise)
    \* ---- ExportImageLogsCommand.execute of image_logs.py
    epc,           \* position of execute(): idle, start, computed, validated, exported, except, done
    eargs,         \* the Namespace passed to execute
    fs,            \* paths that already exist as files
    now,           \* datetime.now()
    cwd,           \* the working directory os.path.realpath resolves against
    output_file_path, \* the local variable of execute
    validateCalls, \* arguments of every _validate_output_file_path call
    exportCalls,   \* keyword arguments of every ImageBuilder.export_logs call
    elog,          \* LOGGER.info lines of image_logs.py
    eprinted,      \* messages handed to utils.error
    eraised,       \* the exception in flight inside execute / leaving it
    steps,         \* the steps execute has taken, in order
    \* ---- _failure_level_type
    flPc,          \* idle, input, done
    flIn,          \* the string handed to _failure_level_type
    flOut,         \* its result: [ok |-> TRUE, value |-> member] or [ok |-> FALSE, error |-> ...]
    \* ---- test_stack_exists of tests/common/test_aws_api.py
    spc,           \* idle, start, described, returned, done
    stack_name,    \* the name handed to stack_exists
    response,      \* the test's parameter: what describe_stack is made to do
    mocked,        \* whether describe_stack is the test's mock or the client's own method
    described,     \* the outcome of the describe_stack call: what it returned or raised
    exists,        \* the outcome of stack_exists: [returned |-> BOOLEAN, raised |-> exception]
    asserted       \* the verdict of the test's assert_that: "none", "pass", "fail"

mainVars == <<pc, argv, environ, args, extra_args, logfile, stdout, stderr,
              handlerCalls, raised, exitCode>>
exportVars == <<epc, eargs, fs, now, cwd, output_file_path, validateCalls,
                exportCalls, elog, eprinted, eraised, steps>>
flVars == <<flPc, flIn, flOut>>
stackVars == <<spc, stack_name, response, mocked, described, exists, asserted>>
vars == <<mainVars, exportVars, flVars, stackVars>>

None == "<None>"

\* Python truthiness of an optional string: None and "" are falsy.
Truthy(v) == v # None /\ v # ""

(***************************************************************************)
(* Bounds                                                                  *)
(***************************************************************************)
MaxExtra == 2      \* longest list of trailing tokens typed after the known arguments
MaxLen == 4        \* longest free string handed to _failure_level_type
MaxCreationTime == 2   \* latest CreationTime of a described stack

(***************************************************************************)
(* FailureLevel and _failure_level_type                                    *)
(***************************************************************************)
\* pcluster.validators.common.FailureLevel: the member names, by value order.
FailureLevel == {<<"I","N","F","O">>, <<"W","A","R","N","I","N","G">>, <<"E","R","R","O","R">>}

LowerChars == {"a","e","f","g","i","n","o","r","w"}

\* str.upper() on one character.
UpperChar(c) ==
    CASE c = "a" -> "A" [] c = "e" -> "E" [] c = "f" -> "F" [] c = "g" -> "G"
      [] c = "i" -> "I" [] c = "n" -> "N" [] c = "o" -> "O" [] c = "r" -> "R"
      [] c = "w" -> "W" [] OTHER -> c

\* str.upper()
Upper(s) == [i \in 1..Len(s) |-> UpperChar(s[i])]

\* A mutant of _failure_level_type: the lookup without .upper().
FailureLevelTypeNoUpper(failure_level_string) ==
    IF failure_level_string \in FailureLevel
    THEN [ok |-> TRUE, value |-> failure_level_string]
    ELSE [ok |-> FALSE, error |-> "ArgumentTypeError", value |-> failure_level_string]

\* A mutant of _failure_level_type: the KeyError is swallowed and ERROR returned.
FailureLevelTypeLenient(failure_level_string) ==
    IF Upper(failure_level_string) \in FailureLevel
    THEN [ok |-> TRUE, value |-> Upper(failure_level_string)]
    ELSE [ok |-> TRUE, value |-> <<"E","R","R","O","R">>]

\* _failure_level_type: FailureLevel[s.upper()], KeyError -> ArgumentTypeError.
FailureLevelType(failure_level_string) ==
    IF Upper(failure_level_string) \in FailureLevel
    THEN [ok |-> TRUE, value |-> Upper(failure_level_string)]
    ELSE [ok |-> FALSE, error |-> "ArgumentTypeError", value |-> failure_level_string]

(***************************************************************************)
(* Exceptions                                                              *)
(***************************************************************************)
NoException == [type |-> "None", code |-> 0]
Exc(t) == [type |-> t, code |-> 1]
SystemExit(code) == [type |-> "SystemExit", code |-> code]

\* The classes an exception of each type is an instance of.
Bases(t) ==
    CASE t = "NoCredentialsError" -> {"NoCredentialsError", "BotoCoreError", "Exception", "BaseException"}
      [] t = "RuntimeError"       -> {"RuntimeError", "Exception", "BaseException"}
      [] t = "OSError"            -> {"OSError", "Exception", "BaseException"}
      [] t = "KeyboardInterrupt"  -> {"KeyboardInterrupt", "BaseException"}
      [] t = "SystemExit"         -> {"SystemExit", "BaseException"}
      [] OTHER                    -> {}

IsInstance(e, cls) == cls \in Bases(e.type)

\* The exit status of the interpreter when e leaves main() uncaught:
\* SystemExit carries its code, anything else ends in a traceback and status 1.
ExitStatus(e) == IF e.type = "SystemExit" THEN e.code ELSE 1

(***************************************************************************)
(* The argument schema built by _get_parser                                *)
(***************************************************************************)
\* subparsers.add_parser(...) of the top-level parser
Commands == {"create", "update", "delete", "start", "stop", "status", "list",
             "instances", "ssh", "build-image", "delete-image", "describe-image",
             "list-images", "configure", "version", "dcv"}

\* dcv_subparsers.add_parser(...)
DcvSubcommands == {"connect"}

\* The parsers that parse a whole command line: every command but dcv, and dcv connect.
Leaves == (Commands \ {"dcv"}) \cup {"dcv connect"}

\* The parsers a command line goes through on its way to a leaf.
ParserPath(leaf) == IF leaf = "dcv connect" THEN {"dcv", "dcv connect"} ELSE {leaf}

\* parsers with the positional cluster_name
HasClusterName == {"create", "update", "delete", "start", "stop", "status",
                   "instances", "ssh", "dcv connect"}

\* parsers with -n/--name, dest image_name, required=True
RequiresImageName == {"build-image", "delete-image", "describe-image"}

\* parsers _addarg_region was applied to
HasRegion == {"create", "update", "delete", "start", "stop", "status", "list",
              "instances", "ssh", "build-image", "delete-image", "describe-image",
              "list-images", "configure", "dcv connect"}

\* parsers with --validation-failure-level
HasFailureLevel == {"create"}

\* Every <parser>.set_defaults(func=<function>) of _get_parser.
SetDefaults ==
    { <<"create", "create">>, <<"update", "update">>, <<"delete", "delete">>,
      <<"start", "start">>, <<"stop", "stop">>, <<"status", "status">>,
      <<"list", "list_clusters">>, <<"instances", "instances">>, <<"ssh", "ssh">>,
      <<"build-image", "build_image">>, <<"delete-image", "delete_image">>,
      <<"describe-image", "describe_image">>, <<"list-images", "list_images">>,
      <<"configure", "configure">>, <<"version", "version">>, <<"dcv", "dcv">> }

\* The func defaults a parse that ends in leaf collects along its path.
FuncDefaults(leaf) == { d[2] : d \in { x \in SetDefaults : x[1] \in ParserPath(leaf) } }

(***************************************************************************)
(* The command line                                                        *)
(***************************************************************************)
Regions == {"", "us-west-2", "eu-west-1"}
Tokens == {"mycluster", "-i"}       \* a positional-looking and an option-looking token
IsOption(tok) == tok = "-i"         \* argparse: the token starts with "-"

FailureLevelInputs == { <<"e","r","r","o","r">>, <<"E","r","r","o","r">>,
                        <<"I","N","F","O">>, <<"e","r","r">> }

RECURSIVE SeqsUpTo(_, _)
SeqsUpTo(S, n) ==
    IF n = 0 THEN {<<>>}
    ELSE LET shorter == SeqsUpTo(S, n - 1)
         IN  shorter \cup { Append(s, x) : s \in { t \in shorter : Len(t) = n - 1 }, x \in S }

\* What can be typed: a command (or none, or an unknown word), dcv's subcommand,
\* the options of the leaf parser, and the remaining tokens in order.
CommandLines ==
    { a \in [command : Commands \cup {None, "frobnicate"},
             subcommand : DcvSubcommands \cup {None},
             region : Regions \cup {None},
             name : {None, "img"},
             failure_level : FailureLevelInputs \cup {<<>>},
             rest : SeqsUpTo(Tokens, MaxExtra + 1)] :
        /\ (a.subcommand # None => a.command = "dcv")
        /\ (a.name # None => a.command \in RequiresImageName)
        /\ (a.failure_level # <<>> => a.command \in HasFailureLevel)
        /\ (a.command \notin Commands =>
               a.region = None /\ a.rest = <<>>)
        /\ (a.command = "dcv" /\ a.subcommand = None =>
               a.region = None /\ a.rest = <<>>) }

Leaf(a) == IF a.command = "dcv" THEN "dcv " \o a.subcommand ELSE a.command

\* index of the first token of rest that does not look like an option (0 if none)
FirstPositional(rest) ==
    IF \E i \in 1..Len(rest) : ~IsOption(rest[i])
    THEN CHOOSE i \in 1..Len(rest) :
            ~IsOption(rest[i]) /\ \A j \in 1..(i - 1) : IsOption(rest[j])
    ELSE 0

Without(s, i) == [j \in 1..(Len(s) - 1) |-> IF j < i THEN s[j] ELSE s[j + 1]]

NoArgs == [func |-> None]

\* parser.parse_known_args(): a usage error (argparse exits with status 2), or the
\* Namespace and the unrecognized tokens.
ParseKnownArgs(a) ==
    LET Error(m) == [ok |-> FALSE, message |-> m, args |-> NoArgs, extra_args |-> <<>>]
    IN
    IF a.command = None THEN Error("the following arguments are required: command")
    ELSE IF a.command \notin Commands THEN Error("argument command: invalid choice")
    ELSE IF a.command = "dcv" /\ a.subcommand = None
         THEN Error("the following arguments are required: subcommand")
    ELSE
    LET leaf == Leaf(a)
        fl == IF a.failure_level = <<>>
              THEN FailureLevelType(<<"E","R","R","O","R">>)   \* default=FailureLevel.ERROR.name
              ELSE FailureLevelType(a.failure_level)
        p == IF leaf \in HasClusterName THEN FirstPositional(a.rest) ELSE 0
        unknownRegion == IF leaf \notin HasRegion /\ a.region # None
                         THEN <<"--region", a.region>> ELSE <<>>
        leftover == IF p = 0 THEN a.rest ELSE Without(a.rest, p)
        funcs == FuncDefaults(leaf)
        ns == [command |-> a.command, func |-> CHOOSE f \in funcs : TRUE]
              @@ (IF a.command = "dcv" THEN [subcommand |-> a.subcommand] ELSE <<>>)
              @@ (IF leaf \in HasRegion THEN [region |-> a.region] ELSE <<>>)
              @@ (IF leaf \in HasClusterName THEN [cluster_name |-> a.rest[p]] ELSE <<>>)
              @@ (IF leaf \in RequiresImageName THEN [image_name |-> a.name] ELSE <<>>)
              @@ (IF leaf \in HasFailureLevel THEN [validation_failure_level |-> fl.value] ELSE <<>>)
    IN
    IF leaf \in HasFailureLevel /\ ~fl.ok
        THEN Error("argument --validation-failure-level: invalid value")
    ELSE IF leaf \in HasClusterName /\ p = 0
        THEN Error("the following arguments are required: cluster_name")
    ELSE IF leaf \in RequiresImageName /\ a.name = None
        THEN Error("the following arguments are required: -n/--name")
    ELSE [ok |-> TRUE, message |-> "", args |-> ns, extra_args |-> unknownRegion \o leftover]

(***************************************************************************)
(* Logging, as set up by config_logger: the "pcluster" logger passes every *)
(* record to the file handler (DEBUG) and records of level INFO and above  *)
(* to the stream handler on stdout, formatted as the bare message.         *)
(***************************************************************************)
ConsoleLevels == {"INFO", "WARNING", "ERROR", "CRITICAL"}

LogToFile(file, level, msg) == Append(file, [level |-> level, message |-> msg])
LogToConsole(out, level, msg) == IF level \in ConsoleLevels THEN Append(out, msg) ELSE out

(***************************************************************************)
(* main()                                                                  *)
(***************************************************************************)
\* What a handler (pcluster.create, pcluster.ssh, ...) can do: return, or raise.
HandlerRaises == {Exc("NoCredentialsError"), Exc("KeyboardInterrupt"), Exc("RuntimeError"),
                  SystemExit(0), SystemExit(1)}

\* config_logger(): os.makedirs of the log directory succeeds, fails with EEXIST
\* (ignored), or fails with another errno, which is raised out of main().
ConfigLogger ==
    /\ pc = "start"
    /\ \E makedirs \in {"created", "EEXIST", "EACCES"} :
          IF makedirs = "EACCES"
          THEN /\ raised' = Exc("OSError")
               /\ stderr' = Append(stderr, "Traceback: OSError")
               /\ exitCode' = ExitStatus(Exc("OSError"))
               /\ pc' = "done"
          ELSE /\ pc' = "configured"
               /\ UNCHANGED <<raised, stderr, exitCode>>
    /\ UNCHANGED <<argv, environ, args, extra_args, logfile, stdout, handlerCalls>>
    /\ UNCHANGED <<exportVars, flVars, stackVars>>

\* LOGGER.debug, _get_parser(), parser.parse_known_args(), LOGGER.debug(args).
\* argparse's error(): usage and message on stderr, sys.exit(2), outside the try.
Parse ==
    /\ pc = "configured"
    /\ LET r == ParseKnownArgs(argv)
           started == LogToFile(logfile, "DEBUG", "pcluster CLI starting")
       IN  IF r.ok
           THEN /\ args' = r.args
                /\ extra_args' = r.extra_args
                /\ logfile' = LogToFile(started, "DEBUG", "args")
                /\ pc' = "try"
                /\ UNCHANGED <<stderr, raised, exitCode>>
           ELSE /\ logfile' = started
                /\ stderr' = stderr \o <<"usage", r.message>>
                /\ raised' = SystemExit(2)
                /\ exitCode' = ExitStatus(SystemExit(2))
                /\ pc' = "done"
                /\ UNCHANGED <<args, extra_args>>
    /\ UNCHANGED <<argv, environ, stdout, handlerCalls>>
    /\ UNCHANGED <<exportVars, flVars, stackVars>>

\* A mutant of RegionToPublish: the region is published only after the handler.
RegionNotPublished(ns, env) == env

\* if "region" in args and args.region: os.environ["AWS_DEFAULT_REGION"] = args.region
RegionToPublish(ns, env) ==
    IF "region" \in DOMAIN ns /\ Truthy(ns.region) THEN ns.region ELSE env

SetRegion ==
    /\ pc = "try"
    /\ environ' = RegionToPublish(args, environ)
    /\ pc' = "dispatch"
    /\ UNCHANGED <<argv, args, extra_args, logfile, stdout, stderr, handlerCalls, raised, exitCode>>
    /\ UNCHANGED <<exportVars, flVars, stackVars>>

\* A mutant of TakesExtraArgs: every handler is handed the trailing arguments.
TakesExtraArgsAlways(func) == TRUE

\* args.func.__name__ == "ssh"
TakesExtraArgs(func) == func = "ssh"

\* A mutant of RejectsExtraArgs: trailing arguments are ignored.
RejectsExtraArgsNever(func, extra) == FALSE

\* the else branch's "if extra_args:"
RejectsExtraArgs(func, extra) == ~TakesExtraArgs(func) /\ extra # <<>>

\* The call args.func(args, extra_args) or args.func(args), as the handler sees it.
Call(ns, extra, env) ==
    [func |-> ns.func, args |-> ns,
     nargs |-> IF TakesExtraArgs(ns.func) THEN 2 ELSE 1,
     extra_args |-> IF TakesExtraArgs(ns.func) THEN extra ELSE <<>>,
     environ |-> env]

\* Lines 406-413: ssh is called with the trailing arguments; any other command with
\* trailing arguments prints usage and raises SystemExit(1); otherwise it is called.
Dispatch ==
    /\ pc = "dispatch"
    /\ IF RejectsExtraArgs(args.func, extra_args)
       THEN /\ stdout' = stdout \o <<"usage", "Invalid arguments...">>
            /\ raised' = SystemExit(1)
            /\ pc' = "except"
            /\ UNCHANGED handlerCalls
       ELSE /\ handlerCalls' = Append(handlerCalls, Call(args, extra_args, environ))
            /\ pc' = "handler"
            /\ UNCHANGED <<stdout, raised>>
    /\ UNCHANGED <<argv, environ, args, extra_args, logfile, stderr, exitCode>>
    /\ UNCHANGED <<exportVars, flVars, stackVars>>

\* The handler returns: main() falls off its end, exit status 0.
HandlerReturns ==
    /\ pc = "handler"
    /\ pc' = "done"
    /\ UNCHANGED <<argv, environ, args, extra_args, logfile, stdout, stderr,
                   handlerCalls, raised, exitCode>>
    /\ UNCHANGED <<exportVars, flVars, stackVars>>

\* The handler raises.
HandlerRaise ==
    /\ pc = "handler"
    /\ \E e \in HandlerRaises : raised' = e
    /\ pc' = "except"
    /\ UNCHANGED <<argv, environ, args, extra_args, logfile, stdout, stderr,
                   handlerCalls, exitCode>>
    /\ UNCHANGED <<exportVars, flVars, stackVars>>

\* A mutant of ExceptClause: the KeyboardInterrupt clause is missing.
ExceptClauseNoInterrupt(e) ==
    IF IsInstance(e, "NoCredentialsError") THEN "NoCredentialsError"
    ELSE IF IsInstance(e, "Exception") THEN "Exception"
    ELSE "none"

\* The except clause of main() that takes e: the first, in source order, whose class
\* e is an instance of.
ExceptClause(e) ==
    IF IsInstance(e, "NoCredentialsError") THEN "NoCredentialsError"
    ELSE IF IsInstance(e, "KeyboardInterrupt") THEN "KeyboardInterrupt"
    ELSE IF IsInstance(e, "Exception") THEN "Exception"
    ELSE "none"

\* A mutant of ClauseExit: a code of its own for the credentials error.
ClauseExitDistinct(clause) == SystemExit(IF clause = "NoCredentialsError" THEN 2 ELSE 1)

\* The sys.exit(1) that ends each of the three clauses.
ClauseExit(clause) == SystemExit(1)

\* What each clause does: one LOGGER call, then its sys.exit.
Exits(clause, level, msg) ==
    /\ logfile' = LogToFile(logfile, level, msg)
    /\ stdout' = LogToConsole(stdout, level, msg)
    /\ exitCode' = ExitStatus(ClauseExit(clause))
    /\ pc' = "done"
    /\ UNCHANGED <<argv, environ, args, extra_args, stderr, handlerCalls, raised>>
    /\ UNCHANGED <<exportVars, flVars, stackVars>>

\* except NoCredentialsError: LOGGER.error(...); sys.exit(1)
ExceptNoCredentialsError ==
    /\ pc = "except"
    /\ ExceptClause(raised) = "NoCredentialsError"
    /\ Exits("NoCredentialsError", "ERROR", "AWS Credentials not found.")

\* except KeyboardInterrupt: LOGGER.info("Exiting..."); sys.exit(1)
ExceptKeyboardInterrupt ==
    /\ pc = "except"
    /\ ExceptClause(raised) = "KeyboardInterrupt"
    /\ Exits("KeyboardInterrupt", "INFO", "Exiting...")

\* except Exception as e: LOGGER.exception(...); sys.exit(1)
ExceptException ==
    /\ pc = "except"
    /\ ExceptClause(raised) = "Exception"
    /\ Exits("Exception", "ERROR", "Unexpected error of type " \o raised.type)

\* No clause takes the exception (SystemExit): it leaves main().
Propagate ==
    /\ pc = "except"
    /\ ExceptClause(raised) = "none"
    /\ exitCode' = ExitStatus(raised)
    /\ pc' = "done"
    /\ UNCHANGED <<argv, environ, args, extra_args, logfile, stdout, stderr,
                   handlerCalls, raised>>
    /\ UNCHANGED <<exportVars, flVars, stackVars>>

(***************************************************************************)
(* ExportImageLogsCommand                                                  *)
(***************************************************************************)
ImageIds == {"ami-123", "img-1"}
Outputs == {None, "", "/data/out.tar.gz", "logs.tar.gz"}
WorkingDirs == {"/home/user", "/tmp"}
Times == [year : {2021, 2022}, month : {1, 12}, day : {9, 31}, hour : {0, 23}, minute : {5, 59}]

ExportArgs ==
    [image_id : ImageIds, output : Outputs, bucket : {"my-bucket"},
     bucket_prefix : {None, "prefix"}, keep_s3_objects : BOOLEAN,
     start_time : {None, "2021-01-01T00:00"}, end_time : {None, "2021-12-31T23:59"}]

\* strftime of a two-digit field (%m, %d, %H, %M): zero padded.
Strftime2(n) == IF n < 10 THEN "0" \o ToString(n) ELSE ToString(n)

\* datetime.strftime('%Y%m%d%H%M')
Strftime(t) ==
    ToString(t.year) \o Strftime2(t.month) \o Strftime2(t.day)
        \o Strftime2(t.hour) \o Strftime2(t.minute)

\* os.path.realpath of a relative file name: resolved against the working directory.
Realpath(dir, name) == dir \o "/" \o name

\* A mutant of OutputFilePath: the explicit output is resolved like the default one.
OutputFilePathResolved(ns, t, dir) ==
    Realpath(dir, IF Truthy(ns.output) THEN ns.output
                  ELSE ns.image_id \o "-logs-" \o Strftime(t) \o ".tar.gz")

\* args.output or os.path.realpath(f"{args.image_id}-logs-{now:%Y%m%d%H%M}.tar.gz")
OutputFilePath(ns, t, dir) ==
    IF Truthy(ns.output) THEN ns.output
    ELSE Realpath(dir, ns.image_id \o "-logs-" \o Strftime(t) \o ".tar.gz")

\* ExportLogsCommand._validate_output_file_path: the path must not exist already and
\* its directory must be writable; otherwise it raises.
ValidateOutputFilePath(path, files) ==
    IF path \in files.existing THEN Exc("PathConflictError")
    ELSE IF ~files.writable THEN Exc("PermissionError")
    ELSE NoException

\* What ImageBuilder(...).export_logs(...) can do: return, or raise.
ExportRaises == {Exc("RuntimeError"), Exc("NoCredentialsError"), Exc("KeyboardInterrupt")}

ExportBases(t) ==
    IF t \in {"PathConflictError", "PermissionError"}
    THEN {t, "Exception", "BaseException"}
    ELSE Bases(t)

\* output_file_path = args.output or os.path.realpath(...)
ComputePath ==
    /\ epc = "start"
    /\ output_file_path' = OutputFilePath(eargs, now, cwd)
    /\ steps' = Append(steps, "compute")
    /\ epc' = "computed"
    /\ UNCHANGED <<eargs, fs, now, cwd, validateCalls, exportCalls, elog, eprinted, eraised>>
    /\ UNCHANGED <<mainVars, flVars, stackVars>>

\* self._validate_output_file_path(output_file_path)
ValidatePath ==
    /\ epc = "computed"
    /\ validateCalls' = Append(validateCalls, output_file_path)
    /\ steps' = Append(steps, "validate")
    /\ LET e == ValidateOutputFilePath(output_file_path, fs)
       IN  IF e = NoException
           THEN epc' = "validated" /\ UNCHANGED eraised
           ELSE epc' = "except" /\ eraised' = e
    /\ UNCHANGED <<eargs, fs, now, cwd, output_file_path, exportCalls, elog, eprinted>>
    /\ UNCHANGED <<mainVars, flVars, stackVars>>

\* The keyword arguments of imagebuilder.export_logs(...)
ExportKwargs(ns, path) ==
    [output |-> path, bucket |-> ns.bucket, bucket_prefix |-> ns.bucket_prefix,
     keep_s3_objects |-> ns.keep_s3_objects, start_time |-> ns.start_time,
     end_time |-> ns.end_time]

\* A mutant of MayExport: the export also runs after a failed validation.
MayExportAnyway(position) == position \in {"validated", "except"}

\* self._export_image_logs is reached only when validation returned.
MayExport(position) == position = "validated"

\* _export_image_logs(args, output_file_path): LOGGER.info, ImageBuilder(image_id),
\* export_logs(...), and LOGGER.info of the success when export_logs returned.
ExportImageLogs ==
    /\ MayExport(epc)
    /\ steps' = Append(steps, "export")
    /\ exportCalls' = Append(exportCalls,
                             [image_id |-> eargs.image_id,
                              kwargs |-> ExportKwargs(eargs, output_file_path)])
    /\ \E outcome \in ExportRaises \cup {NoException} :
          IF outcome = NoException
          THEN /\ elog' = elog \o << <<"Beginning export of logs for the image: ", eargs.image_id>>,
                                     <<"Image's logs exported correctly to ", output_file_path>> >>
               /\ epc' = "done"
               /\ eraised' = NoException
          ELSE /\ elog' = Append(elog, <<"Beginning export of logs for the image: ", eargs.image_id>>)
               /\ epc' = "except"
               /\ eraised' = outcome
    /\ UNCHANGED <<eargs, fs, now, cwd, output_file_path, validateCalls, eprinted>>
    /\ UNCHANGED <<mainVars, flVars, stackVars>>

\* A mutant of Catches: the try statement has no matching clause.
CatchesNothing(e) == FALSE

\* except Exception as e
Catches(e) == "Exception" \in ExportBases(e.type)

\* utils.error(message): prints the message and ends the command with a non-zero
\* outcome, SystemExit(1).
UtilsError(message) == [printed |-> message, raises |-> SystemExit(1)]

\* except Exception as e: utils.error(f"Unable to export image's logs.\n{e}")
ExecuteExcept ==
    /\ epc = "except"
    /\ Catches(eraised)
    /\ LET r == UtilsError(<<"Unable to export image's logs.", "\n", eraised.type>>)
       IN  /\ eprinted' = Append(eprinted, r.printed)
           /\ eraised' = r.raises
    /\ epc' = "done"
    /\ UNCHANGED <<eargs, fs, now, cwd, output_file_path, validateCalls, exportCalls, elog, steps>>
    /\ UNCHANGED <<mainVars, flVars, stackVars>>

\* An exception that is no Exception (KeyboardInterrupt) leaves execute as it is.
ExecutePropagate ==
    /\ epc = "except"
    /\ ~Catches(eraised)
    /\ epc' = "done"
    /\ UNCHANGED <<eargs, fs, now, cwd, output_file_path, validateCalls, exportCalls,
                   elog, eprinted, eraised, steps>>
    /\ UNCHANGED <<mainVars, flVars, stackVars>>

(***************************************************************************)
(* Applying _failure_level_type                                            *)
(***************************************************************************)
FreeChars == {"i", "I", "n", "N", "f", "F", "o", "O", "1"}

\* every mix of upper and lower case of a member name
CaseVariants(member) ==
    { [i \in 1..Len(member) |-> IF i \in lower THEN
                                   CHOOSE c \in LowerChars : UpperChar(c) = member[i]
                                ELSE member[i]] : lower \in SUBSET (1..Len(member)) }

FailureLevelStrings ==
    SeqsUpTo(FreeChars, MaxLen)
        \cup UNION { CaseVariants(m) : m \in FailureLevel }
        \cup { Append(v, "1") : v \in CaseVariants(<<"E","R","R","O","R">>) }
        \cup { <<"e","r","r">>, <<"w","a","r","n">>, <<"_","e","r","r","o","r">> }

ApplyFailureLevelType ==
    /\ flPc = "input"
    /\ flOut' = FailureLevelType(flIn)
    /\ flPc' = "done"
    /\ UNCHANGED flIn
    /\ UNCHANGED <<mainVars, exportVars, stackVars>>

(***************************************************************************)
(* CfnClient.stack_exists, as test_stack_exists exercises it               *)
(***************************************************************************)
\* FAKE_STACK_NAME, and other names a caller may ask about
StackNames == {"parallelcluster-name", "parallelcluster-other", "mystack"}
StackStatuses == {"CREATED", "CREATE_COMPLETE", "DELETE_IN_PROGRESS"}

\* AWSClientError(function_name="describe_stack",
\*                message=f"Stack with id {name} does not exist")
DoesNotExistError(name) ==
    [type |-> "AWSClientError", code |-> 1, function_name |-> "describe_stack",
     message |-> <<"Stack with id ", name, " does not exist">>]

\* {"Stacks": [{"StackName": name, "CreationTime": t, "StackStatus": status}]}
Description(name, t, status) ==
    [kind |-> "dict",
     items |-> << <<"Stacks", <<[StackName |-> name, CreationTime |-> t, StackStatus |-> status]>> >> >>]

NothingReturned == [kind |-> "none"]

\* The parameters of the test: (response, is_error), for any stack.
Responses(name) ==
    { [value |-> DoesNotExistError(name), is_error |-> TRUE] }
      \cup { [value |-> Description(name, t, status), is_error |-> FALSE] :
                t \in 0..MaxCreationTime, status \in StackStatuses }

\* A mock called with side_effect=value: an exception is raised; any other iterable
\* is iterated, and the call returns its first item (of a dict, its first key).
MockSideEffect(value) ==
    IF "type" \in DOMAIN value
    THEN [raised |-> value, returned |-> NothingReturned]
    ELSE [raised |-> NoException, returned |-> [kind |-> "str", value |-> value.items[1][1]]]

\* The client's own describe_stack: the service's error is raised, its description
\* of the stack returned.
DescribeStack(value) ==
    IF "type" \in DOMAIN value
    THEN [raised |-> value, returned |-> NothingReturned]
    ELSE [raised |-> NoException, returned |-> value]

\* the error says that the stack asked about does not exist
SaysDoesNotExist(e, name) ==
    /\ e.type = "AWSClientError"
    /\ e.message = <<"Stack with id ", name, " does not exist">>

\* A mutant of StackExists: the error is not turned into a value.
StackExistsPropagates(outcome, name) ==
    IF outcome.raised = NoException
    THEN [returned |-> TRUE, raised |-> NoException]
    ELSE [returned |-> FALSE, raised |-> outcome.raised]

\* CfnClient.stack_exists(stack_name): True when describe_stack returns, False when it
\* raises the AWSClientError saying that the stack does not exist.
StackExists(outcome, name) ==
    IF outcome.raised = NoException
    THEN [returned |-> TRUE, raised |-> NoException]
    ELSE IF SaysDoesNotExist(outcome.raised, name)
    THEN [returned |-> FALSE, raised |-> NoException]
    ELSE [returned |-> FALSE, raised |-> outcome.raised]

\* should_exist = not is_error
ShouldExist(is_error) == ~is_error

\* stack_exists calls self.describe_stack(stack_name).
CallDescribeStack ==
    /\ spc = "start"
    /\ described' = IF mocked THEN MockSideEffect(response.value)
                    ELSE DescribeStack(response.value)
    /\ spc' = "described"
    /\ UNCHANGED <<stack_name, response, mocked, exists, asserted>>
    /\ UNCHANGED <<mainVars, exportVars, flVars>>

\* stack_exists returns (or lets the exception through).
StackExistsReturns ==
    /\ spc = "described"
    /\ exists' = StackExists(described, stack_name)
    /\ spc' = "returned"
    /\ UNCHANGED <<stack_name, response, mocked, described, asserted>>
    /\ UNCHANGED <<mainVars, exportVars, flVars>>

\* assert_that(stack_exists(FAKE_STACK_NAME)).is_equal_to(should_exist)
AssertThat ==
    /\ spc = "returned"
    /\ asserted' = IF exists.raised = NoException
                      /\ exists.returned = ShouldExist(response.is_error)
                   THEN "pass" ELSE "fail"
    /\ spc' = "done"
    /\ UNCHANGED <<stack_name, response, mocked, described, exists>>
    /\ UNCHANGED <<mainVars, exportVars, flVars>>

StackIdle ==
    /\ spc = "idle" /\ stack_name = None /\ response = [is_error |-> FALSE]
    /\ mocked = FALSE /\ described = [raised |-> NoException, returned |-> NothingReturned]
    /\ exists = [returned |-> FALSE, raised |-> NoException] /\ asserted = "none"

(***************************************************************************)
(* Specifications                                                          *)
(***************************************************************************)
MainIdle ==
    /\ pc = "idle" /\ argv = [command |-> None] /\ environ = None /\ args = NoArgs
    /\ extra_args = <<>> /\ logfile = <<>> /\ stdout = <<>> /\ stderr = <<>>
    /\ handlerCalls = <<>> /\ raised = NoException /\ exitCode = 0

ExportIdle ==
    /\ epc = "idle" /\ eargs = [image_id |-> None] /\ fs = [existing |-> {}, writable |-> TRUE]
    /\ now = [year |-> 0] /\ cwd = None /\ output_file_path = None
    /\ validateCalls = <<>> /\ exportCalls = <<>> /\ elog = <<>> /\ eprinted = <<>>
    /\ eraised = NoException /\ steps = <<>>

FailureLevelIdle == flPc = "idle" /\ flIn = <<>> /\ flOut = [ok |-> FALSE]

\* One run of the pcluster process: the command line and the inherited environment.
Init ==
    /\ pc = "start"
    /\ argv \in CommandLines
    /\ environ \in {None, "eu-west-1"}
    /\ args = NoArgs /\ extra_args = <<>>
    /\ logfile = <<>> /\ stdout = <<>> /\ stderr = <<>>
    /\ handlerCalls = <<>> /\ raised = NoException /\ exitCode = 0
    /\ ExportIdle /\ FailureLevelIdle /\ StackIdle

Next ==
    \/ ConfigLogger
    \/ Parse
    \/ SetRegion
    \/ Dispatch
    \/ HandlerReturns
    \/ HandlerRaise
    \/ ExceptNoCredentialsError
    \/ ExceptKeyboardInterrupt
    \/ ExceptException
    \/ Propagate

Spec == Init /\ [][Next]_vars

\* One call of ExportImageLogsCommand.execute.
InitExport ==
    /\ epc = "start"
    /\ eargs \in ExportArgs
    /\ now \in Times
    /\ cwd \in WorkingDirs
    /\ \E existing \in BOOLEAN, writable \in BOOLEAN :
          fs = [existing |-> IF existing THEN {OutputFilePath(eargs, now, cwd)} ELSE {},
                writable |-> writable]
    /\ output_file_path = None
    /\ validateCalls = <<>> /\ exportCalls = <<>> /\ elog = <<>> /\ eprinted = <<>>
    /\ eraised = NoException /\ steps = <<>>
    /\ MainIdle /\ FailureLevelIdle /\ StackIdle

NextExport ==
    \/ ComputePath
    \/ ValidatePath
    \/ ExportImageLogs
    \/ ExecuteExcept
    \/ ExecutePropagate

SpecExport == InitExport /\ [][NextExport]_vars

\* One application of _failure_level_type.
InitFailureLevel ==
    /\ flPc = "input"
    /\ flIn \in FailureLevelStrings
    /\ flOut = [ok |-> FALSE]
    /\ MainIdle /\ ExportIdle /\ StackIdle

NextFailureLevel == ApplyFailureLevelType

SpecFailureLevel == InitFailureLevel /\ [][NextFailureLevel]_vars

\* One run of test_stack_exists, or one call of stack_exists on the client itself.
InitStack ==
    /\ spc = "start"
    /\ stack_name \in StackNames
    /\ response \in Responses(stack_name)
    /\ mocked \in BOOLEAN
    /\ described = [raised |-> NoException, returned |-> NothingReturned]
    /\ exists = [returned |-> FALSE, raised |-> NoException]
    /\ asserted = "none"
    /\ MainIdle /\ ExportIdle /\ FailureLevelIdle

NextStack ==
    \/ CallDescribeStack
    \/ StackExistsReturns
    \/ AssertThat

SpecStack == InitStack /\ [][NextStack]_vars


(***************************************************************************)
(* Properties of main()                                                    *)
(***************************************************************************)
HasUsage(out) == \E i \in 1..Len(out) : out[i] = "usage"

\* a LOGGER record above DEBUG: the line an except clause of main() writes
FailureLogged == \E i \in 1..Len(logfile) : logfile[i].level # "DEBUG"

CaughtTypes == {"NoCredentialsError", "KeyboardInterrupt", "RuntimeError"}

\* C1: when the parsed subcommand's handler is not ssh and parse_known_args returned
\* unrecognized tokens, the handler is never called, and the process ends with usage
\* printed and exit status 1, the SystemExit(1) having passed all three except
\* clauses (no clause logged anything).
C1_ExtraArgsRejected ==
    (args # NoArgs /\ args.func # "ssh" /\ extra_args # <<>>) =>
        /\ handlerCalls = <<>>
        /\ pc = "done" =>
              /\ exitCode = 1
              /\ HasUsage(stdout)
              /\ raised = SystemExit(1)
              /\ ~FailureLogged

C1_Witness ==
    /\ pc = "done" /\ args # NoArgs /\ args.func = "list_clusters"
    /\ extra_args # <<>> /\ exitCode = 1

\* C2: for every subcommand that accepts --region, when a region value (a non-empty
\* string) is typed, AWS_DEFAULT_REGION holds exactly that value at the moment the
\* handler is called, whatever the inherited environment was.
C2_RegionBeforeHandler ==
    \A i \in 1..Len(handlerCalls) :
        (argv.command \in Commands /\ Leaf(argv) \in HasRegion /\ argv.region \notin {None, ""})
            => handlerCalls[i].environ = argv.region

C2_Witness ==
    /\ handlerCalls # <<>>
    /\ argv.region = "us-west-2"
    /\ handlerCalls[1].environ = "us-west-2"
    /\ handlerCalls[1].func = "dcv"

\* The exit status main() gives each way of ending, read off the run.
ExpectedExitCode ==
    IF handlerCalls # <<>>
    THEN IF raised = NoException THEN 0                      \* the handler returned
         ELSE IF raised.type \in CaughtTypes THEN 1         \* one code for the three clauses
         ELSE raised.code                                   \* the handler's own SystemExit
    ELSE IF args # NoArgs THEN 1                             \* unrecognized trailing arguments
    ELSE IF raised.type = "OSError" THEN 1                   \* config_logger failed
    ELSE 2                                                   \* argparse's error()

C7_Dispatch ==
    /\ \A leaf \in Leaves : Cardinality(FuncDefaults(leaf)) = 1
    /\ Len(handlerCalls) <= 1
    /\ \A i \in 1..Len(handlerCalls) :
          LET call == handlerCalls[i]
          IN  /\ <<argv.command, call.func>> \in SetDefaults
              /\ call.args = args
              /\ (call.nargs = 2) <=> (call.func = "ssh")
              /\ call.func = "ssh" => call.extra_args = extra_args
              /\ call.func # "ssh" => extra_args = <<>>
    /\ (pc \in {"handler", "done"} /\ args # NoArgs /\ (args.func = "ssh" \/ extra_args = <<>>))
          => Len(handlerCalls) = 1

C7_Witness ==
    /\ pc = "done" /\ Len(handlerCalls) = 1
    /\ handlerCalls[1].func = "ssh" /\ handlerCalls[1].nargs = 2
    /\ handlerCalls[1].extra_args = <<"-i", "mycluster">>

\* a failure log line or not, every failing run of main()
Failed == pc = "done" /\ raised # NoException /\ raised # SystemExit(0)

\* C8 as stated: every failure path, failures before the try block included,
\* produces a log line and a non-zero outcome.
C8_Original == Failed => (logfile # <<>> /\ exitCode # 0)

\* C8 (amended): every failure path ends in a non-zero exit status, but only the
\* failures the handler raises inside the try block as NoCredentialsError,
\* KeyboardInterrupt or another Exception produce a log line; a failure of
\* config_logger leaves main() uncaught with nothing logged, a parser error prints
\* usage on stderr, unrecognized trailing arguments print usage on stdout.
C8_FailurePaths ==
    Failed =>
        /\ exitCode # 0
        /\ FailureLogged <=> (handlerCalls # <<>> /\ raised.type \in CaughtTypes)
        /\ raised.type = "OSError" => (logfile = <<>> /\ stdout = <<>>)
        /\ raised = SystemExit(2) => (HasUsage(stderr) /\ stdout = <<>>)
        /\ (args # NoArgs /\ handlerCalls = <<>>) => HasUsage(stdout)

C8_Witness ==
    /\ Failed /\ raised.type = "KeyboardInterrupt" /\ FailureLogged
    /\ stdout = <<"Exiting...">>

\* the argument-schema failures, read off the command line
SchemaFailure(a) ==
    \/ a.command \notin Commands
    \/ a.command = "dcv" /\ a.subcommand = None
    \/ /\ a.command \in (HasClusterName \cup {"dcv"})
       /\ \A i \in 1..Len(a.rest) : a.rest[i] = "-i"
    \/ a.command \in RequiresImageName /\ a.name = None
    \/ /\ a.command = "create" /\ a.failure_level # <<>>
       /\ a.failure_level \notin UNION { CaseVariants(m) : m \in FailureLevel }

\* C10: on an argument-schema failure (no subcommand, dcv without its subcommand, a
\* missing required argument, an invalid failure level) no handler ever runs, the
\* region variable is never written, and the process ends non-zero with usage.
C10_SchemaFailure ==
    /\ [](SchemaFailure(argv) =>
            /\ handlerCalls = <<>>
            /\ (pc = "done" /\ raised.type # "OSError") =>
                  (exitCode # 0 /\ HasUsage(stderr)))
    /\ [][SchemaFailure(argv) => environ' = environ]_vars

C10_Witness ==
    /\ pc = "done" /\ argv.command = "create" /\ argv.failure_level = <<"e","r","r">>
    /\ argv.region = "us-west-2" /\ argv.rest = <<"mycluster">>
    /\ exitCode = 2 /\ environ = None

(***************************************************************************)
(* Properties of ExportImageLogsCommand.execute                            *)
(***************************************************************************)
IsPrefix(s, t) == Len(s) <= Len(t) /\ \A i \in 1..Len(s) : s[i] = t[i]

SuccessLogged == \E i \in 1..Len(elog) : elog[i][1] = "Image's logs exported correctly to "

\* C4: execute computes the path, validates it and delegates the export, in this
\* order and without retry: export_logs is called at most once, never before the
\* validation, and never when the validated path already exists as a file or cannot
\* be written.
C4_ExportOrder ==
    /\ IsPrefix(steps, <<"compute", "validate", "export">>)
    /\ Len(validateCalls) <= 1
    /\ Len(exportCalls) <= 1
    /\ exportCalls # <<>> => Len(validateCalls) = 1
    /\ (validateCalls # <<>> /\ (validateCalls[1] \in fs.existing \/ ~fs.writable))
          => exportCalls = <<>>

C4_Witness ==
    /\ epc = "done" /\ validateCalls # <<>> /\ validateCalls[1] \in fs.existing
    /\ fs.writable /\ exportCalls = <<>> /\ steps = <<"compute", "validate">>

\* the exceptions of the model that are instances of Exception
ExceptionTypes == {"RuntimeError", "NoCredentialsError", "PathConflictError", "PermissionError"}

Digit(d) ==
    CASE d = 0 -> "0" [] d = 1 -> "1" [] d = 2 -> "2" [] d = 3 -> "3" [] d = 4 -> "4"
      [] d = 5 -> "5" [] d = 6 -> "6" [] d = 7 -> "7" [] d = 8 -> "8" [] d = 9 -> "9"

TwoDigits(n) == Digit((n \div 10) % 10) \o Digit(n % 10)

\* YYYYMMDDHHMM, every field at its full width
TwelveDigits(t) ==
    TwoDigits(t.year \div 100) \o TwoDigits(t.year % 100) \o TwoDigits(t.month)
        \o TwoDigits(t.day) \o TwoDigits(t.hour) \o TwoDigits(t.minute)

\* C6: export_logs receives as output the absolute path of
\* <image_id>-logs-<YYYYMMDDHHMM>.tar.gz when no output was given, and the given
\* output unchanged otherwise; it is the path that was validated; bucket,
\* bucket_prefix, keep_s3_objects, start_time and end_time are those of the arguments.
C6_ExportArguments ==
    \A i \in 1..Len(exportCalls) :
        LET k == exportCalls[i].kwargs
        IN  /\ eargs.output \notin {None, ""} => k.output = eargs.output
            /\ eargs.output \in {None, ""} =>
                  k.output = cwd \o "/" \o eargs.image_id \o "-logs-"
                                 \o TwelveDigits(now) \o ".tar.gz"
            /\ validateCalls = <<k.output>>
            /\ exportCalls[i].image_id = eargs.image_id
            /\ k.bucket = eargs.bucket
            /\ k.bucket_prefix = eargs.bucket_prefix
            /\ k.keep_s3_objects = eargs.keep_s3_objects
            /\ k.start_time = eargs.start_time
            /\ k.end_time = eargs.end_time

C6_Witness ==
    /\ exportCalls # <<>> /\ eargs.output = None /\ eargs.image_id = "ami-123"
    /\ cwd = "/home/user"
    /\ now = [year |-> 2021, month |-> 1, day |-> 9, hour |-> 0, minute |-> 5]
    /\ exportCalls[1].kwargs.output = "/home/user/ami-123-logs-202101090005.tar.gz"
    /\ exportCalls[1].kwargs.bucket_prefix = None /\ ~exportCalls[1].kwargs.keep_s3_objects

(***************************************************************************)
(* Properties of _failure_level_type                                       *)
(***************************************************************************)
LetterPairs == { {"a","A"}, {"e","E"}, {"f","F"}, {"g","G"}, {"i","I"}, {"n","N"},
                 {"o","O"}, {"r","R"}, {"w","W"} }

SameLetter(c, d) == c = d \/ {c, d} \in LetterPairs

\* s and t are equal up to the case of their letters
EqualIgnoringCase(s, t) == Len(s) = Len(t) /\ \A i \in 1..Len(s) : SameLetter(s[i], t[i])

\* C9: _failure_level_type returns the member whose name equals the string up to
\* case ("error", "ERROR" and "Error" all give ERROR), and raises an
\* ArgumentTypeError for every string that equals no member name up to case.
C9_FailureLevelType ==
    flPc = "done" =>
        /\ flOut.ok <=> (\E m \in FailureLevel : EqualIgnoringCase(flIn, m))
        /\ flOut.ok => (flOut.value \in FailureLevel /\ EqualIgnoringCase(flIn, flOut.value))
        /\ ~flOut.ok => flOut.error = "ArgumentTypeError"
        /\ flIn \in { <<"e","r","r","o","r">>, <<"E","R","R","O","R">>, <<"E","r","r","o","r">> }
              => (flOut.ok /\ flOut.value = <<"E","R","R","O","R">>)

C9_Witness ==
    /\ flPc = "done" /\ flIn = <<"E","r","r","o","r">>
    /\ flOut.ok /\ flOut.value = <<"E","R","R","O","R">>

(***************************************************************************)
(* Properties of CfnClient.stack_exists                                    *)
(***************************************************************************)
\* C11: stack_exists returns False when describe_stack raises the AWSClientError
\* saying that the stack does not exist (the error becomes a value, nothing is
\* raised), and True when describe_stack returns; the test's assertion passes in
\* both cases.
C11_StackExists ==
    /\ spc \in {"returned", "done"} =>
          /\ exists.raised = NoException
          /\ response.is_error => ~exists.returned
          /\ ~response.is_error => exists.returned
          /\ exists.returned <=> (described.raised = NoException)
    /\ spc = "done" => asserted = "pass"

C11_Witness ==
    /\ spc = "done" /\ stack_name = "parallelcluster-name" /\ response.is_error
    /\ described.raised.type = "AWSClientError"
    /\ ~exists.returned /\ exists.raised = NoException /\ asserted = "pass"

====
